---- MODULE Spec2Model ----
(***************************************************************************)
(* Model of supabase/functions/test-gmail-integration/index.ts:            *)
(*   - the sender pattern matcher (matchesNewsletterPattern),              *)
(*   - the Gmail client with token refresh (createGmailClient),            *)
(*   - the request handler passed to serve().                              *)
(* Strings whose characters matter (addresses, patterns, From headers)     *)
(* are sequences of one-character strings.  Every await of the handler is  *)
(* one step of the state machine.                                          *)
(***************************************************************************)
EXTENDS Integers, Sequences, FiniteSets, TLC

(***************************************************************************)
(* Bounds of the model                                                     *)
(***************************************************************************)
\* largest number of message summaries the provider puts in one listing
MaxListed == 11
\* access tokens are 0..MaxToken
MaxToken == 1
\* largest number of 401 answers to a first attempt within one request
MaxExchanges == 2
\* longest local part prepended to a domain tail when addresses are drawn
MaxLocalLen == 2
\* longest sampled pattern list handed to the matcher
MaxPatterns == 2

(***************************************************************************)
(* Program constants                                                       *)
(***************************************************************************)
\* recentEmails.messages.slice(0, 10)
DetailLimit == 10
\* gmail.listMessages(query, 20)
maxResults == 20
\* the status the provider answers when the access token is rejected
Unauthorized == 401

SetMin(S) == CHOOSE x \in S : \A y \in S : x <= y
SetMax(S) == CHOOSE x \in S : \A y \in S : x >= y
Min(a, b) == IF a <= b THEN a ELSE b

(***************************************************************************)
(* String primitives used by the source (JavaScript String.prototype)      *)
(***************************************************************************)
UpperCase == <<"A","B","C","D","E","F","G","H","I","J","K","L","M","N","O","P","Q","R","S","T","U","V","W","X","Y","Z">>
LowerCase == <<"a","b","c","d","e","f","g","h","i","j","k","l","m","n","o","p","q","r","s","t","u","v","w","x","y","z">>

UpperSet == {UpperCase[i] : i \in 1..26}
LowerSet == {LowerCase[i] : i \in 1..26}
LowerOf == [c \in UpperSet |-> LowerCase[CHOOSE i \in 1..26 : UpperCase[i] = c]]
UpperOf == [c \in LowerSet |-> UpperCase[CHOOSE i \in 1..26 : LowerCase[i] = c]]

lowerChar(c) == IF c \in UpperSet THEN LowerOf[c] ELSE c
upperChar(c) == IF c \in LowerSet THEN UpperOf[c] ELSE c

toLowerCase(s) == [i \in 1..Len(s) |-> lowerChar(s[i])]
toUpperCase(s) == [i \in 1..Len(s) |-> upperChar(s[i])]

startsWith(s, p) == Len(p) <= Len(s) /\ SubSeq(s, 1, Len(p)) = p

endsWith(s, p) == Len(p) <= Len(s) /\ SubSeq(s, Len(s) - Len(p) + 1, Len(s)) = p

\* s.substring(start): start is 0-based
substring(s, start) == SubSeq(s, start + 1, Len(s))

WhiteSpace == {" ", "\t", "\n"}

trim(s) ==
    LET keep == {i \in 1..Len(s) : s[i] \notin WhiteSpace}
    IN IF keep = {} THEN <<>> ELSE SubSeq(s, SetMin(keep), SetMax(keep))

(***************************************************************************)
(* Sender pattern matcher                                                  *)
(***************************************************************************)
NEWSLETTER_PATTERNS == <<
     <<"*","@","m","a","i","l",".","b","e","e","h","i","i","v",".","c","o","m">>,
     <<"*","@","s","u","b","s","t","a","c","k",".","c","o","m">>,
     <<"*","@","c","o","n","v","e","r","t","k","i","t",".","c","o","m">>,
     <<"c","r","e","w","@","m","o","r","n","i","n","g","b","r","e","w",".","c","o","m">>,
     <<"h","e","l","l","o","@","t","h","e","h","u","s","t","l","e",".","c","o">>,
     <<"*","@","n","e","w","s","l","e","t","t","e","r","s",".","f","e","e","d","b","i","n","u","s","e","r","c","o","n","t","e","n","t",".","c","o","m">>,
     <<"*","@","c","k",".","c","o","n","v","e","r","t","k","i","t",".","c","o","m">>,
     <<"*","@","g","h","o","s","t",".","o","r","g">> >>

\* the callback handed to NEWSLETTER_PATTERNS.some
patternTestCaseSensitive(email, pattern) ==
    IF startsWith(pattern, <<"*", "@">>)
    THEN LET domain == substring(pattern, 2)
         IN endsWith(email, toLowerCase(domain))
    ELSE email = toLowerCase(pattern)
patternTest(email, pattern) ==
    IF startsWith(pattern, <<"*", "@">>)
    THEN LET domain == substring(pattern, 2)
         IN endsWith(toLowerCase(email), toLowerCase(domain))
    ELSE toLowerCase(email) = toLowerCase(pattern)

\* Array.prototype.some: left to right, stops at the first pattern that matches
RECURSIVE some(_, _)
some(list, email) ==
    IF list = <<>> THEN FALSE
    ELSE IF patternTest(email, Head(list)) THEN TRUE
    ELSE some(Tail(list), email)

matchesStaticOrCurated(email) ==
    some(NEWSLETTER_PATTERNS \o << <<"*","@","b",".","c","o">> >>, email)
matchesNewsletterPattern(email) == some(NEWSLETTER_PATTERNS, email)

(***************************************************************************)
(* Extraction of the address from the raw From header                      *)
(***************************************************************************)
\* from.match(/<([^>]+)>/): capture group 1 of the leftmost match, or <<>> (no match)
angleMatch(from) ==
    LET starts == {i \in 1..Len(from) :
                      /\ from[i] = "<"
                      /\ i + 1 <= Len(from)
                      /\ from[i + 1] # ">"
                      /\ \E j \in (i + 2)..Len(from) : from[j] = ">"}
    IN IF starts = {} THEN <<>>
       ELSE LET i == SetMin(starts)
                j == SetMin({k \in (i + 2)..Len(from) : from[k] = ">"})
            IN SubSeq(from, i + 1, j - 1)

\* from.match(/([^\s]+@[^\s]+)/): the leftmost match, or <<>> (no match)
bareMatch(from) ==
    LET run(s, e) == \A k \in s..e : from[k] \notin WhiteSpace
        starts == {s \in 1..Len(from) :
                      \E p \in (s + 1)..(Len(from) - 1) :
                          from[p] = "@" /\ run(s, p + 1)}
    IN IF starts = {} THEN <<>>
       ELSE LET s == SetMin(starts)
                e == SetMax({k \in s..Len(from) : run(s, k)})
            IN SubSeq(from, s, e)

extractAddress(from) ==
    IF angleMatch(from) # <<>> THEN trim(angleMatch(from))
    ELSE IF bareMatch(from) # <<>> THEN trim(bareMatch(from))
    ELSE from

(***************************************************************************)
(* State                                                                   *)
(***************************************************************************)
Reqs == {1, 2}

Tokens == 0..MaxToken
NoToken == 0 - 1
RefreshToken == "refresh-token"

Methods == {"OPTIONS", "POST"}
Statuses == {200, 401, 403, 500}

\* raw From header values the provider may return ("" when the header is missing)
FromHeaders == {
    <<"N"," ","<","a","@","g","h","o","s","t",".","o","r","g",">">>,
    <<"a","@","b",".","c","o">>,
    <<>> }

\* rows of newsletters_curated with is_active = true (email_pattern only)
CuratedRows == { <<>>, << <<"*","@","b",".","c","o">> >> }

VARIABLES
    store,                \* the auth_tokens row of the user
    lastWrite,            \* who issued the latest update of auth_tokens, and with which token
    pc,                   \* position of each request in the handler
    method,               \* req.method
    authHeader,           \* whether the authorization header is present
    identityOk,           \* whether supabase.auth.getUser returned a user
    authData,             \* what the read of auth_tokens gave: "unread", "null", "row"
    accessToken,          \* the client's accessToken parameter
    currentAccessToken,   \* the client's closure variable
    lastIssued,           \* the token of the client's latest successful exchange
    refreshToken,         \* the client's refreshToken parameter
    call,                 \* the makeRequest invocation in progress
    recentEmails,         \* result of listMessages
    idx,                  \* number of summaries the loop has gone through
    processedCount,
    detectedNewsletters,
    unmatched,            \* the processed addresses that were not classified as newsletters
    failedItems,          \* number of iterations that ended in the catch block
    listResult,           \* how the listMessages call ended
    responses,            \* the Responses returned for the request
    storeReads,           \* reads of auth_tokens by the request
    storeWrites,          \* updates of auth_tokens by the request
    tokenExchanges,       \* POSTs to the token endpoint by the request
    exchangesOk,          \* those of them answered with success
    providerReqs,         \* fetches of the Gmail API by the request
    detailCalls,          \* getMessage calls started by the request
    curatedReads,         \* reads of newsletters_curated by the request
    m_pc,                 \* position of the matcher run
    m_email,              \* the address handed to the matcher
    m_patterns,           \* the pattern list handed to the matcher
    m_result,             \* what the matcher returned
    m_reordered           \* what it returned for the reordered list

clientVars == <<accessToken, currentAccessToken, lastIssued, refreshToken>>
loopVars == <<recentEmails, idx, processedCount, detectedNewsletters, failedItems,
              unmatched>>
reqVars == <<method, authHeader, identityOk, authData>>
countVars == <<storeReads, storeWrites, tokenExchanges, exchangesOk, providerReqs,
               detailCalls, curatedReads>>
matchVars == <<m_pc, m_email, m_patterns, m_result, m_reordered>>
vars == <<store, lastWrite, pc, reqVars, clientVars, call, loopVars, listResult, responses,
          countVars, matchVars>>

NoCall == [site |-> "none", sent |-> 0, first |-> 0, exchange |-> "none",
           retry |-> 0, exchanges |-> 0, bearer1 |-> NoToken, bearer2 |-> NoToken,
           issued |-> NoToken, before |-> NoToken, writes |-> 0,
           usedRefresh |-> "none", result |-> "pending", status |-> 0]

NoResponse == [status |-> 0, kind |-> "none", success |-> FALSE, needsReauth |-> FALSE,
               error |-> "none", errorStatus |-> 0, totalEmails |-> -1,
               processedEmails |-> -1, detectedCount |-> -1,
               detectedNewsletters |-> <<>>, curatedPatternsCount |-> -1,
               curatedPatterns |-> <<>>]

HandlerInit(active) ==
    /\ store \in [present : BOOLEAN, access_token : Tokens, refresh_token : {RefreshToken}]
    /\ lastWrite = [by |-> 0, token |-> NoToken]
    /\ pc = [r \in Reqs |-> IF r \in active THEN "start" ELSE "absent"]
    /\ method = [r \in Reqs |-> "none"]
    /\ authHeader = [r \in Reqs |-> FALSE]
    /\ identityOk = [r \in Reqs |-> FALSE]
    /\ authData = [r \in Reqs |-> "unread"]
    /\ accessToken = [r \in Reqs |-> NoToken]
    /\ currentAccessToken = [r \in Reqs |-> NoToken]
    /\ lastIssued = [r \in Reqs |-> NoToken]
    /\ refreshToken = [r \in Reqs |-> "none"]
    /\ call = [r \in Reqs |-> NoCall]
    /\ recentEmails = [r \in Reqs |-> [present |-> FALSE, count |-> 0]]
    /\ idx = [r \in Reqs |-> 0]
    /\ processedCount = [r \in Reqs |-> 0]
    /\ detectedNewsletters = [r \in Reqs |-> <<>>]
    /\ failedItems = [r \in Reqs |-> 0]
    /\ unmatched = [r \in Reqs |-> {}]
    /\ listResult = [r \in Reqs |-> "none"]
    /\ responses = [r \in Reqs |-> <<>>]
    /\ storeReads = [r \in Reqs |-> 0]
    /\ storeWrites = [r \in Reqs |-> 0]
    /\ tokenExchanges = [r \in Reqs |-> 0]
    /\ exchangesOk = [r \in Reqs |-> 0]
    /\ providerReqs = [r \in Reqs |-> 0]
    /\ detailCalls = [r \in Reqs |-> 0]
    /\ curatedReads = [r \in Reqs |-> 0]

MatcherIdle ==
    /\ m_pc = "idle"
    /\ m_email = <<>>
    /\ m_patterns = <<>>
    /\ m_result = FALSE
    /\ m_reordered = FALSE

\* access tokens are opaque: the stored one is the first of them
Init == HandlerInit({1}) /\ store.access_token = 0 /\ MatcherIdle

(***************************************************************************)
(* Responses of the handler                                                *)
(***************************************************************************)
\* `return new Response(...)`: the handler ends with this response
Respond(r, resp) ==
    /\ responses' = [responses EXCEPT ![r] = Append(@, resp)]
    /\ pc' = [pc EXCEPT ![r] = "done"]

PreflightResponse == [NoResponse EXCEPT !.status = 200, !.kind = "preflight"]

\* the top-level catch block
ErrorResponse(message, status) ==
    [NoResponse EXCEPT !.status = 500, !.kind = "error", !.success = FALSE,
                       !.error = message, !.errorStatus = status]

NeedsReauthBadStatus ==
    [NoResponse EXCEPT !.status = 500, !.kind = "needsReauth", !.success = FALSE,
                       !.needsReauth = TRUE, !.error = "No Gmail tokens found"]
NeedsReauthResponse ==
    [NoResponse EXCEPT !.status = 200, !.kind = "needsReauth", !.success = FALSE,
                       !.needsReauth = TRUE, !.error = "No Gmail tokens found"]

EmptyReport ==
    [NoResponse EXCEPT !.status = 200, !.kind = "empty", !.success = TRUE,
                       !.totalEmails = 0, !.detectedCount = 0]

ReportIterated(r, curated) ==
    [NoResponse EXCEPT !.status = 200, !.kind = "report", !.success = TRUE,
                       !.totalEmails = idx[r],
                       !.processedEmails = processedCount[r],
                       !.detectedCount = Len(detectedNewsletters[r]),
                       !.detectedNewsletters = detectedNewsletters[r],
                       !.curatedPatternsCount = Len(curated),
                       !.curatedPatterns = curated]
Report(r, curated) ==
    [NoResponse EXCEPT !.status = 200, !.kind = "report", !.success = TRUE,
                       !.totalEmails = recentEmails[r].count,
                       !.processedEmails = processedCount[r],
                       !.detectedCount = Len(detectedNewsletters[r]),
                       !.detectedNewsletters = detectedNewsletters[r],
                       !.curatedPatternsCount = Len(curated),
                       !.curatedPatterns = curated]

(***************************************************************************)
(* The handler up to the construction of the client                        *)
(***************************************************************************)
\* the throw statements caught by the top-level catch block
Throw(r, message, status) == Respond(r, ErrorResponse(message, status))

\* lines 135-144: the preflight answer and the authorization header check
Start(r) ==
    /\ pc[r] = "start"
    /\ \E m \in Methods, h \in BOOLEAN :
        /\ method' = [method EXCEPT ![r] = m]
        /\ authHeader' = [authHeader EXCEPT ![r] = h]
        /\ IF m = "OPTIONS" THEN Respond(r, PreflightResponse)
           ELSE IF ~h THEN Throw(r, "Missing authorization header", 0)
           ELSE /\ pc' = [pc EXCEPT ![r] = "getUser"]
                /\ UNCHANGED responses
    /\ UNCHANGED <<store, lastWrite, identityOk, authData, clientVars, call, loopVars,
                   listResult, countVars, matchVars>>

identityInvalidErrorOnly(userError, user) == userError
identityInvalid(userError, user) == userError \/ ~user

\* lines 153-158: supabase.auth.getUser(jwt)
GetUser(r) ==
    /\ pc[r] = "getUser"
    /\ \E userError \in BOOLEAN, user \in BOOLEAN :
        /\ identityOk' = [identityOk EXCEPT ![r] = ~userError /\ user]
        /\ IF identityInvalid(userError, user)
           THEN Throw(r, "Invalid or expired token", 0)
           ELSE /\ pc' = [pc EXCEPT ![r] = "lookup"]
                /\ UNCHANGED responses
    /\ UNCHANGED <<store, lastWrite, method, authHeader, authData, clientVars, call, loopVars,
                   listResult, countVars, matchVars>>

credentialsMissing(authError, hasData) == authError \/ ~hasData

\* lines 163-189: the read of auth_tokens and createGmailClient.
\* .single() reports an error when no row matches; dbError is any other failure.
Lookup(r) ==
    /\ pc[r] = "lookup"
    /\ storeReads' = [storeReads EXCEPT ![r] = @ + 1]
    /\ \E dbError \in BOOLEAN :
        LET authError == dbError \/ ~store.present
            hasData == ~authError
        IN /\ authData' = [authData EXCEPT ![r] = IF hasData THEN "row" ELSE "null"]
           /\ IF credentialsMissing(authError, hasData)
              THEN /\ Respond(r, NeedsReauthResponse)
                   /\ UNCHANGED clientVars
              ELSE /\ accessToken' = [accessToken EXCEPT ![r] = store.access_token]
                   /\ currentAccessToken' = [currentAccessToken EXCEPT ![r] = store.access_token]
                   /\ UNCHANGED lastIssued
                   /\ refreshToken' = [refreshToken EXCEPT ![r] = store.refresh_token]
                   /\ pc' = [pc EXCEPT ![r] = "listMessages"]
                   /\ UNCHANGED responses
    /\ UNCHANGED <<store, lastWrite, method, authHeader, identityOk, call, loopVars, listResult, storeWrites,
                   tokenExchanges, exchangesOk, providerReqs, detailCalls,
                   curatedReads, matchVars>>

(***************************************************************************)
(* makeRequest and refreshAccessToken                                      *)
(***************************************************************************)
\* response.ok
responseOkNot5xx(status) == status < 500
responseOk(status) == status >= 200 /\ status <= 299

\* line 95
shouldRefreshAny4xx(status) == status >= 400 /\ status <= 499
shouldRefresh(status) == status = Unauthorized

\* line 88: the Authorization header of the first request
firstBearerInitial(r) == accessToken[r]
firstBearer(r) == currentAccessToken[r]

\* line 103: the Authorization header of the retried request
retryBearerStale(r) == call[r].bearer1
retryBearer(r) == currentAccessToken[r]

\* how a finished makeRequest leaves the call record
Finished(c, status) ==
    IF responseOk(status)
    THEN [c EXCEPT !.result = "ok"]
    ELSE [c EXCEPT !.result = "ApiFailure", !.status = status]

\* lines 87-97 and 110-114: the first fetch of listMessages or getMessage
FirstFetch(r) ==
    /\ pc[r] \in {"listMessages", "getMessage"}
    /\ \E status \in Statuses :
        /\ status = Unauthorized => tokenExchanges[r] < MaxExchanges
        /\ LET c == [NoCall EXCEPT
                        !.site = IF pc[r] = "listMessages" THEN "list" ELSE "detail",
                        !.sent = 1,
                        !.first = status,
                        !.bearer1 = firstBearer(r),
                        !.before = currentAccessToken[r]]
           IN IF shouldRefresh(status)
              THEN /\ call' = [call EXCEPT ![r] = c]
                   /\ pc' = [pc EXCEPT ![r] = "refreshAccessToken"]
              ELSE /\ call' = [call EXCEPT ![r] = Finished(c, status)]
                   /\ pc' = [pc EXCEPT ![r] = "returned"]
    /\ providerReqs' = [providerReqs EXCEPT ![r] = @ + 1]
    /\ detailCalls' = [detailCalls EXCEPT ![r] = IF pc[r] = "getMessage" THEN @ + 1 ELSE @]
    /\ UNCHANGED <<store, lastWrite, reqVars, clientVars, loopVars, listResult, responses,
                   storeReads, storeWrites, tokenExchanges, exchangesOk,
                   curatedReads, matchVars>>

\* line 67 after the check of line 62
tokenAfterExchangeUnchecked(r, ok, t) == t
tokenAfterExchange(r, ok, t) == IF ok THEN t ELSE currentAccessToken[r]

\* lines 49-67: the POST to the token endpoint and its answer
Exchange(r) ==
    /\ pc[r] = "refreshAccessToken"
    /\ tokenExchanges' = [tokenExchanges EXCEPT ![r] = @ + 1]
    /\ \E ok \in BOOLEAN, t \in Tokens :
        /\ currentAccessToken' = [currentAccessToken EXCEPT ![r] = tokenAfterExchange(r, ok, t)]
        /\ lastIssued' = [lastIssued EXCEPT ![r] = IF ok THEN t ELSE @]
        /\ IF ok
           THEN /\ call' = [call EXCEPT ![r].exchange = "ok", ![r].issued = t,
                                        ![r].exchanges = @ + 1,
                                        ![r].usedRefresh = refreshToken[r]]
                /\ exchangesOk' = [exchangesOk EXCEPT ![r] = @ + 1]
                /\ pc' = [pc EXCEPT ![r] = "persist"]
           ELSE /\ call' = [call EXCEPT ![r].exchange = "failed",
                                        ![r].exchanges = @ + 1,
                                        ![r].usedRefresh = refreshToken[r],
                                        ![r].result = "RefreshFailure"]
                /\ UNCHANGED exchangesOk
                /\ pc' = [pc EXCEPT ![r] = "returned"]
    /\ UNCHANGED <<store, lastWrite, reqVars, accessToken, refreshToken, loopVars, listResult, responses,
                   storeReads, storeWrites, providerReqs, detailCalls,
                   curatedReads, matchVars>>

\* lines 70-79 and 97: the update of auth_tokens
PersistStale(r) ==
    /\ pc[r] = "persist"
    /\ store' = IF store.present
                THEN [store EXCEPT !.access_token = call[r].before]
                ELSE store
    /\ lastWrite' = [by |-> r, token |-> call[r].before]
    /\ storeWrites' = [storeWrites EXCEPT ![r] = @ + 1]
    /\ call' = [call EXCEPT ![r].writes = @ + 1]
    /\ pc' = [pc EXCEPT ![r] = "retry"]
    /\ UNCHANGED <<reqVars, clientVars, loopVars, listResult, responses, storeReads,
                   tokenExchanges, exchangesOk, providerReqs, detailCalls,
                   curatedReads, matchVars>>
PersistIfUnchanged(r) ==
    /\ pc[r] = "persist"
    /\ store' = IF store.present /\ store.access_token = call[r].before
                THEN [store EXCEPT !.access_token = currentAccessToken[r]]
                ELSE store
    /\ lastWrite' = [by |-> r, token |-> currentAccessToken[r]]
    /\ storeWrites' = [storeWrites EXCEPT ![r] = @ + 1]
    /\ call' = [call EXCEPT ![r].writes = @ + 1]
    /\ pc' = [pc EXCEPT ![r] = "retry"]
    /\ UNCHANGED <<reqVars, clientVars, loopVars, listResult, responses, storeReads,
                   tokenExchanges, exchangesOk, providerReqs, detailCalls,
                   curatedReads, matchVars>>
Persist(r) ==
    /\ pc[r] = "persist"
    /\ store' = IF store.present
                THEN [store EXCEPT !.access_token = currentAccessToken[r]]
                ELSE store
    /\ lastWrite' = [by |-> r, token |-> currentAccessToken[r]]
    /\ storeWrites' = [storeWrites EXCEPT ![r] = @ + 1]
    /\ call' = [call EXCEPT ![r].writes = @ + 1]
    /\ pc' = [pc EXCEPT ![r] = "retry"]
    /\ UNCHANGED <<reqVars, clientVars, loopVars, listResult, responses, storeReads,
                   tokenExchanges, exchangesOk, providerReqs, detailCalls,
                   curatedReads, matchVars>>

\* lines 100-114: the retried fetch
Retry(r) ==
    /\ pc[r] = "retry"
    /\ \E status \in Statuses :
        call' = [call EXCEPT ![r] =
                    Finished([@ EXCEPT !.sent = 2, !.retry = status,
                                       !.bearer2 = retryBearer(r)], status)]
    /\ pc' = [pc EXCEPT ![r] = "returned"]
    /\ providerReqs' = [providerReqs EXCEPT ![r] = @ + 1]
    /\ UNCHANGED <<store, lastWrite, reqVars, clientVars, loopVars, listResult, responses,
                   storeReads, storeWrites, tokenExchanges, exchangesOk,
                   detailCalls, curatedReads, matchVars>>

(***************************************************************************)
(* The handler after the client is built                                   *)
(***************************************************************************)
\* the message of the Error a failed call throws
FailureMessage(c) ==
    IF c.result = "RefreshFailure" THEN "Failed to refresh token" ELSE "Gmail API error"

\* line 223: the loop goes on while the slice has a next summary
loopPcNoSlice(i, n) == IF i < n THEN "getMessage" ELSE "curated"
loopPc(i, n) == IF i < Min(n, DetailLimit) THEN "getMessage" ELSE "curated"

\* lines 197-221: what the handler does with the outcome of listMessages
ListReturn(r) ==
    /\ pc[r] = "returned"
    /\ call[r].site = "list"
    /\ listResult' = [listResult EXCEPT ![r] = call[r].result]
    /\ IF call[r].result # "ok"
       THEN /\ Throw(r, FailureMessage(call[r]), call[r].status)
            /\ UNCHANGED loopVars
       ELSE \E present \in BOOLEAN, n \in 0..Min(MaxListed, maxResults) :
            /\ ~present => n = 0
            /\ IF ~present
               THEN /\ Respond(r, EmptyReport)
                    /\ UNCHANGED loopVars
               ELSE /\ recentEmails' = [recentEmails EXCEPT ![r] = [present |-> TRUE, count |-> n]]
                    /\ idx' = [idx EXCEPT ![r] = 0]
                    /\ processedCount' = [processedCount EXCEPT ![r] = 0]
                    /\ detectedNewsletters' = [detectedNewsletters EXCEPT ![r] = <<>>]
                    /\ pc' = [pc EXCEPT ![r] = loopPc(0, n)]
                    /\ UNCHANGED <<failedItems, responses, unmatched>>
    /\ call' = [call EXCEPT ![r] = NoCall]
    /\ UNCHANGED <<store, lastWrite, reqVars, clientVars, countVars, matchVars>>

\* lines 233-237 for each From header the provider may return, evaluated once
emailAddressOf == [from \in FromHeaders |-> extractAddress(from)]
isNewsletter == [from \in FromHeaders |-> matchesNewsletterPattern(extractAddress(from))]

\* lines 224-252 after getMessage: one pass of the loop body from the return of
\* getMessage (or its throw) to the next iteration
DetailReturnRethrow(r) ==
    /\ pc[r] = "returned"
    /\ call[r].site = "detail"
    /\ IF call[r].result = "ok"
       THEN /\ \E from \in FromHeaders :
                LET emailAddress == emailAddressOf[from]
                IN /\ detectedNewsletters' =
                        [detectedNewsletters EXCEPT ![r] =
                           IF isNewsletter[from]
                           THEN Append(@, emailAddress) ELSE @]
                   /\ unmatched' =
                        [unmatched EXCEPT ![r] =
                           IF isNewsletter[from]
                           THEN @ ELSE @ \cup {emailAddress}]
            /\ processedCount' = [processedCount EXCEPT ![r] = @ + 1]
            /\ idx' = [idx EXCEPT ![r] = @ + 1]
            /\ pc' = [pc EXCEPT ![r] = loopPc(idx[r] + 1, recentEmails[r].count)]
            /\ UNCHANGED <<failedItems, responses>>
       ELSE /\ Throw(r, FailureMessage(call[r]), call[r].status)
            /\ failedItems' = [failedItems EXCEPT ![r] = @ + 1]
            /\ UNCHANGED <<processedCount, detectedNewsletters, idx, unmatched>>
    /\ call' = [call EXCEPT ![r] = NoCall]
    /\ UNCHANGED <<store, lastWrite, reqVars, clientVars, recentEmails, listResult,
                   countVars, matchVars>>
DetailReturn(r) ==
    /\ pc[r] = "returned"
    /\ call[r].site = "detail"
    /\ IF call[r].result = "ok"
       THEN /\ \E from \in FromHeaders :
                LET emailAddress == emailAddressOf[from]
                IN /\ detectedNewsletters' =
                        [detectedNewsletters EXCEPT ![r] =
                           IF isNewsletter[from]
                           THEN Append(@, emailAddress) ELSE @]
                   /\ unmatched' =
                        [unmatched EXCEPT ![r] =
                           IF isNewsletter[from]
                           THEN @ ELSE @ \cup {emailAddress}]
            /\ processedCount' = [processedCount EXCEPT ![r] = @ + 1]
            /\ UNCHANGED failedItems
       ELSE /\ failedItems' = [failedItems EXCEPT ![r] = @ + 1]
            /\ UNCHANGED <<processedCount, detectedNewsletters, unmatched>>
    /\ idx' = [idx EXCEPT ![r] = @ + 1]
    /\ pc' = [pc EXCEPT ![r] = loopPc(idx[r] + 1, recentEmails[r].count)]
    /\ call' = [call EXCEPT ![r] = NoCall]
    /\ UNCHANGED <<store, lastWrite, reqVars, clientVars, recentEmails, listResult,
                   responses, countVars, matchVars>>

\* lines 255-288: the read of newsletters_curated and the report
Curated(r) ==
    /\ pc[r] = "curated"
    /\ curatedReads' = [curatedReads EXCEPT ![r] = @ + 1]
    /\ \E curatedNewsletters \in CuratedRows : Respond(r, Report(r, curatedNewsletters))
    /\ UNCHANGED <<store, lastWrite, reqVars, clientVars, call, loopVars, listResult, storeReads,
                   storeWrites, tokenExchanges, exchangesOk, providerReqs,
                   detailCalls, matchVars>>

Next ==
    \E r \in Reqs :
        \/ Start(r)
        \/ GetUser(r)
        \/ Lookup(r)
        \/ FirstFetch(r)
        \/ Exchange(r)
        \/ Persist(r)
        \/ Retry(r)
        \/ ListReturn(r)
        \/ DetailReturn(r)
        \/ Curated(r)

Spec == Init /\ [][Next]_vars

(***************************************************************************)
(* The matcher applied to drawn addresses and pattern lists                *)
(***************************************************************************)
SeqsUpTo(S, n) == UNION {[1..k -> S] : k \in 0..n}
Tails(p) == {SubSeq(p, k, Len(p)) : k \in 1..(Len(p) + 1)}
Reverse(l) == [i \in 1..Len(l) |-> l[Len(l) + 1 - i]]
Rotate(l) == IF l = <<>> THEN l ELSE Append(Tail(l), Head(l))

GhostMixedCase == <<"*","@","G","h","o","s","t",".","O","R","G">>
SamplePatterns == {NEWSLETTER_PATTERNS[8], NEWSLETTER_PATTERNS[5], GhostMixedCase}
PatternLists ==
    SeqsUpTo(SamplePatterns, MaxPatterns)
        \cup {NEWSLETTER_PATTERNS, Reverse(NEWSLETTER_PATTERNS)}

NotMailBeehiiv == <<"n","o","t","m","a","i","l",".","b","e","e","h","i","i","v",".","c","o","m">>
LocalParts == SeqsUpTo({"a", "@"}, MaxLocalLen)
DomainTails ==
    UNION {Tails(NEWSLETTER_PATTERNS[i]) : i \in DOMAIN NEWSLETTER_PATTERNS}
        \cup {toUpperCase(t) : t \in UNION {Tails(p) : p \in SamplePatterns}}
Emails == {l \o t : l \in LocalParts, t \in DomainTails} \cup {NotMailBeehiiv}

InitMatch ==
    /\ HandlerInit({})
    /\ store.present = FALSE
    /\ store.access_token = 0
    /\ m_pc = "ready"
    /\ m_email \in Emails
    /\ m_patterns \in PatternLists
    /\ m_result = FALSE
    /\ m_reordered = FALSE

handlerVars == <<store, lastWrite, pc, reqVars, clientVars, call, loopVars, listResult,
                 responses, countVars>>

\* lines 33-41 with the list as a parameter
Classify ==
    /\ m_pc = "ready"
    /\ m_result' = some(m_patterns, m_email)
    /\ m_pc' = "classified"
    /\ UNCHANGED <<handlerVars, m_email, m_patterns, m_reordered>>

\* the same address against the same patterns in another order
ClassifyReordered ==
    /\ m_pc = "classified"
    /\ \E q \in {Reverse(m_patterns), Rotate(m_patterns)} :
        m_reordered' = some(q, m_email)
    /\ m_pc' = "reordered"
    /\ UNCHANGED <<handlerVars, m_email, m_patterns, m_result>>

(***************************************************************************)
(* Two requests of the same user, interleaved                              *)
(***************************************************************************)
\* largest listing the provider returns when two requests run together
MaxListedTwo == 1

\* both requests are in flight and the user has a row in auth_tokens
InitTwo == HandlerInit(Reqs) /\ store.present /\ store.access_token = 0 /\ MatcherIdle

\* the exchanges the two requests have made or are about to make
ExchangesTwo ==
    tokenExchanges[1] + tokenExchanges[2]
    + Cardinality({q \in Reqs : pc[q] = "refreshAccessToken"})

\* the steps of the handler, of either request in any order; the inputs that
\* play no part in the tokens are fixed: short listings, From headers of
\* newsletters, no curated row, MaxExchanges answers of 401 in all
NextTwo ==
    \E r \in Reqs :
        \/ Start(r)
        \/ GetUser(r)
        \/ Lookup(r)
        \/ FirstFetch(r) /\ (call'[r].first = Unauthorized => ExchangesTwo < MaxExchanges)
        \/ Exchange(r)
        \/ Persist(r)
        \/ Retry(r)
        \/ ListReturn(r) /\ recentEmails'[r].count <= MaxListedTwo
        \/ DetailReturn(r) /\ unmatched'[r] = {}
        \/ Curated(r) /\ responses'[r][1].curatedPatterns = <<>>

SpecTwo == InitTwo /\ [][NextTwo]_vars

NextMatch == Classify \/ ClassifyReordered

SpecMatch == InitMatch /\ [][NextMatch]_vars

(***************************************************************************)
(* Properties of makeRequest, read where the call has just returned        *)
(***************************************************************************)
Returned(r) == pc[r] = "returned"
Done(r) == pc[r] = "done"
Answer(r) == responses[r][1]
Success == 200..299

\* C1: a call whose first response is 401, whose token exchange succeeds and
\* whose retried response is 2xx completes successfully; the retry carries the
\* newly issued access token as bearer, and exactly one write to the
\* credential store happens during the call.
RefreshThenRetrySucceeds ==
    \A r \in Reqs :
        (Returned(r) /\ call[r].first = 401 /\ call[r].exchange = "ok"
                     /\ call[r].retry \in Success)
        => /\ call[r].result = "ok"
           /\ call[r].sent = 2
           /\ call[r].bearer2 = call[r].issued
           /\ call[r].writes = 1

RefreshThenRetrySucceedsWitness ==
    \E r \in Reqs :
        /\ Returned(r) /\ call[r].site = "detail"
        /\ call[r].first = 401 /\ call[r].exchange = "ok" /\ call[r].retry = 200
        /\ call[r].issued # call[r].before
        /\ call[r].bearer2 = call[r].issued
        /\ call[r].result = "ok"

\* C2: a call whose first and retried responses are both 401 fails with an
\* ApiFailure of status 401 after exactly one token exchange and exactly two
\* provider requests.
SecondUnauthorizedIsApiFailure ==
    \A r \in Reqs :
        (Returned(r) /\ call[r].first = 401 /\ call[r].retry = 401)
        => /\ call[r].result = "ApiFailure"
           /\ call[r].status = 401
           /\ call[r].exchanges = 1
           /\ call[r].sent = 2

SecondUnauthorizedWitness ==
    \E r \in Reqs :
        /\ Returned(r) /\ call[r].first = 401 /\ call[r].retry = 401
        /\ call[r].result = "ApiFailure" /\ call[r].exchanges = 1

\* C3: when the first response is 401 and the token endpoint answers with a
\* non-success status, the call fails with a RefreshFailure: no retry, no
\* write to the credential store, and the in-memory access token keeps its
\* previous value.
RefreshFailureLeavesTokenAlone ==
    \A r \in Reqs :
        (Returned(r) /\ call[r].first = 401 /\ call[r].exchange = "failed")
        => /\ call[r].result = "RefreshFailure"
           /\ call[r].sent = 1
           /\ call[r].retry = 0
           /\ call[r].writes = 0
           /\ currentAccessToken[r] = call[r].before

RefreshFailureWitness ==
    \E r \in Reqs :
        /\ Returned(r) /\ call[r].first = 401 /\ call[r].exchange = "failed"
        /\ call[r].result = "RefreshFailure"
        /\ storeWrites[r] = 0

\* C4: a first response that is non-2xx and not 401 makes the call fail with an
\* ApiFailure carrying that status, with no token exchange, no retry and no
\* write to the credential store.
OtherFailureIsImmediate ==
    \A r \in Reqs :
        (Returned(r) /\ call[r].first \notin Success /\ call[r].first # 401)
        => /\ call[r].result = "ApiFailure"
           /\ call[r].status = call[r].first
           /\ call[r].exchanges = 0
           /\ call[r].exchange = "none"
           /\ call[r].sent = 1
           /\ call[r].writes = 0

OtherFailureWitness ==
    \E r \in Reqs :
        /\ Returned(r) /\ call[r].first = 403
        /\ call[r].result = "ApiFailure" /\ call[r].status = 403

(***************************************************************************)
(* Properties of the handler, read where the request has been answered     *)
(***************************************************************************)
\* C5: per-item failures do not abort the batch: with n summaries listed, the
\* loop attempts each of the first min(n,10), the request ends with a 200
\* success report, and processedEmails is min(n,10) minus the number of items
\* whose detail fetch failed.
BatchSurvivesItemFailures ==
    \A r \in Reqs :
        (Done(r) /\ recentEmails[r].present)
        => LET m == Min(recentEmails[r].count, 10)
           IN /\ detailCalls[r] = m
              /\ idx[r] = m
              /\ failedItems[r] <= m
              /\ Answer(r).status = 200
              /\ Answer(r).success
              /\ Answer(r).processedEmails = m - failedItems[r]

BatchSurvivesWitness ==
    \E r \in Reqs :
        /\ Done(r) /\ recentEmails[r].present /\ recentEmails[r].count = 10
        /\ failedItems[r] = 1
        /\ Answer(r).status = 200 /\ Answer(r).processedEmails = 9

\* C6: a request with a valid identity but no stored provider credential is
\* answered with 200, success:false and needsReauth:true, and makes no
\* provider call, no token exchange and no credential store write.
MissingCredentialsAskReauth ==
    \A r \in Reqs :
        (Done(r) /\ identityOk[r] /\ authData[r] = "null")
        => /\ Answer(r).status = 200
           /\ ~Answer(r).success
           /\ Answer(r).needsReauth
           /\ providerReqs[r] = 0
           /\ tokenExchanges[r] = 0
           /\ storeWrites[r] = 0

MissingCredentialsWitness ==
    \E r \in Reqs :
        /\ Done(r) /\ identityOk[r] /\ authData[r] = "null" /\ ~store.present
        /\ Answer(r).needsReauth

CallFailed(result) == result \in {"ApiFailure", "RefreshFailure"}

\* C7 as claimed: whenever a client call of the request fails, the listing
\* call or a detail call alike, the request is answered with 500.
AnyCallFailureGives500 ==
    \A r \in Reqs :
        (Done(r) /\ (CallFailed(listResult[r]) \/ failedItems[r] > 0))
        => Answer(r).status = 500

\* C7 amended: a failure of the listing call reaches the top-level handler and
\* the request is answered with 500 carrying the failure's message; a failure
\* of a detail call is caught per item and the request is still answered with
\* the 200 report.
OnlyListFailureGives500 ==
    \A r \in Reqs :
        Done(r)
        => /\ CallFailed(listResult[r])
                => /\ Answer(r).status = 500
                   /\ Answer(r).error =
                        (IF listResult[r] = "RefreshFailure"
                         THEN "Failed to refresh token" ELSE "Gmail API error")
           /\ failedItems[r] > 0
                => /\ Answer(r).status = 200
                   /\ Answer(r).kind = "report"

DetailFailureWitness ==
    \E r \in Reqs :
        /\ Done(r) /\ failedItems[r] > 0 /\ listResult[r] = "ok"
        /\ Answer(r).status = 200

\* C8: every non-OPTIONS request that has ended was answered exactly once, with
\* status 200 or 500, and no request is answered twice; a request without an
\* authorization header or whose identity verification fails is answered with
\* 500 before any credential store read, provider call or token exchange.
OneAnswerAndAuthFirst ==
    \A r \in Reqs :
        /\ Len(responses[r]) <= 1
        /\ Done(r) <=> Len(responses[r]) = 1
        /\ (Done(r) /\ method[r] # "OPTIONS") => Answer(r).status \in {200, 500}
        /\ (Done(r) /\ method[r] # "OPTIONS" /\ (~authHeader[r] \/ ~identityOk[r]))
            => /\ Answer(r).status = 500
               /\ storeReads[r] = 0
               /\ providerReqs[r] = 0
               /\ tokenExchanges[r] = 0

AuthFailureWitness ==
    \E r \in Reqs :
        /\ Done(r) /\ method[r] = "POST" /\ authHeader[r] /\ ~identityOk[r]
        /\ Answer(r).status = 500 /\ Answer(r).error = "Invalid or expired token"

(***************************************************************************)
(* Properties of the matcher                                               *)
(***************************************************************************)
lower(s) == toLowerCase(s)
IsWildcard(p) == Len(p) >= 2 /\ p[1] = "*" /\ p[2] = "@"
\* the text of a wildcard pattern after "*@"
DomainOf(p) == SubSeq(p, 3, Len(p))
\* s = x \o suffix for some x
HasSuffix(s, suffix) == \E k \in 0..Len(s) : s = SubSeq(s, 1, k) \o suffix

PatternMatches(addr, p) ==
    IF IsWildcard(p) THEN HasSuffix(lower(addr), lower(DomainOf(p)))
    ELSE lower(addr) = lower(p)

\* C9: the matcher returns true iff at least one pattern of the list matches,
\* a wildcard *@d matching iff lower(address) ends with lower(d) and an exact
\* pattern p iff lower(address) = lower(p); the order of the list does not
\* change the result and an empty list gives false.
MatcherIsAnyPattern ==
    /\ m_pc # "ready"
        => /\ m_result = (\E i \in DOMAIN m_patterns : PatternMatches(m_email, m_patterns[i]))
           /\ m_patterns = <<>> => ~m_result
    /\ m_pc = "reordered" => m_reordered = m_result

MatcherWitness ==
    /\ m_pc = "reordered"
    /\ m_patterns = NEWSLETTER_PATTERNS
    /\ m_email = NotMailBeehiiv
    /\ m_result /\ m_reordered

\* C10: a wildcard pattern *@domain matches exactly when the lowercased
\* address ends with the lowercased "@domain", the '@' included.
WildcardSuffixIncludesAt ==
    (m_pc # "ready" /\ Len(m_patterns) = 1 /\ IsWildcard(m_patterns[1]))
    => m_result = HasSuffix(lower(m_email), lower(<<"@">> \o DomainOf(m_patterns[1])))

(***************************************************************************)
(* Properties of the classification inside the handler                     *)
(***************************************************************************)
MatchesAny(addr, list) == \E i \in DOMAIN list : PatternMatches(addr, list[i])
InList(addr, list) == \E i \in DOMAIN list : list[i] = addr
BCo == <<"a","@","b",".","c","o">>

\* C11 as claimed: classification is made against the static list plus the
\* curated list read from the store, so a processed address that matches a
\* curated pattern is reported as matched.
CuratedMatchIsReported ==
    \A r \in Reqs :
        (Done(r) /\ Answer(r).kind = "report")
        => \A a \in unmatched[r] : ~MatchesAny(a, Answer(r).curatedPatterns)

\* C11 amended: classification is made against the static list only: a
\* processed address is reported as matched iff it matches a pattern of
\* NEWSLETTER_PATTERNS; the curated list is read once, after the loop, and is
\* only reported (its patterns and their count).
ClassifiedByStaticListOnly ==
    \A r \in Reqs :
        /\ ~Done(r) => curatedReads[r] = 0
        /\ (Done(r) /\ Answer(r).kind = "report")
            => /\ \A i \in DOMAIN Answer(r).detectedNewsletters :
                    MatchesAny(Answer(r).detectedNewsletters[i], NEWSLETTER_PATTERNS)
               /\ \A a \in unmatched[r] : ~MatchesAny(a, NEWSLETTER_PATTERNS)
               /\ Answer(r).detectedNewsletters = detectedNewsletters[r]
               /\ curatedReads[r] = 1
               /\ Answer(r).curatedPatternsCount = Len(Answer(r).curatedPatterns)

CuratedOnlyWitness ==
    \E r \in Reqs :
        /\ Done(r) /\ Answer(r).kind = "report"
        /\ BCo \in unmatched[r]
        /\ MatchesAny(BCo, Answer(r).curatedPatterns)
        /\ ~InList(BCo, Answer(r).detectedNewsletters)
        /\ Answer(r).detectedCount >= 1

(***************************************************************************)
(* Two requests of the same user                                           *)
(***************************************************************************)
\* C12: under any interleaving of two requests of the same user, the
\* in-memory token of a request is set when its client is created and is
\* changed afterwards only by a successful exchange of that same request; the
\* stored access token is always the one of the last write, whoever made it
\* (last writer wins: no lock, no version check).
OwnRefreshOnly ==
    \A r \in Reqs :
        currentAccessToken'[r] # currentAccessToken[r]
        => \/ pc[r] = "lookup" /\ pc'[r] = "listMessages"
           \/ /\ pc[r] = "refreshAccessToken" /\ pc'[r] = "persist"
              /\ exchangesOk'[r] = exchangesOk[r] + 1
              /\ currentAccessToken'[r] = call'[r].issued
LastWriterWins == lastWrite.by # 0 => store.access_token = lastWrite.token
TokensAreOwnStoreIsLastWrite == []LastWriterWins /\ [][OwnRefreshOnly]_vars

\* both requests refreshed and wrote; the store holds the token of request 2
\* and request 1 ends with another token in memory
OverwrittenWitness ==
    /\ Done(1) /\ Done(2)
    /\ storeWrites[1] >= 1 /\ storeWrites[2] >= 1
    /\ lastWrite.by = 2
    /\ store.access_token = currentAccessToken[2]
    /\ currentAccessToken[1] # store.access_token

(***************************************************************************)
(* Requests and exchanges of one client call                               *)
(***************************************************************************)
\* the client calls request r has started: listMessages, then one getMessage
\* per pass of the loop
CallsStarted(r) == (IF listResult[r] # "none" \/ call[r].site = "list" THEN 1 ELSE 0)
                   + detailCalls[r]

\* C13: one client call issues at most two provider requests and at most one
\* token exchange; the exchange and the second request happen only when the
\* first response was 401 (and the second request only after the exchange
\* succeeded).
CallIsBounded ==
    \A r \in Reqs :
        /\ call[r].sent <= 2
        /\ call[r].exchanges <= 1
        /\ call[r].exchanges = 1 => call[r].sent >= 1 /\ call[r].first = Unauthorized
        /\ call[r].sent = 2 => call[r].first = Unauthorized /\ call[r].exchange = "ok"
        /\ providerReqs[r] <= 2 * CallsStarted(r)
        /\ tokenExchanges[r] <= CallsStarted(r)
        /\ providerReqs[r] - CallsStarted(r) <= exchangesOk[r]

\* a getMessage call that was answered 401, exchanged the token and retried
DetailCallRetriedWitness ==
    \E r \in Reqs :
        /\ Returned(r) /\ call[r].site = "detail"
        /\ call[r].first = Unauthorized
        /\ call[r].exchanges = 1 /\ call[r].sent = 2

(***************************************************************************)
(* The detail loop                                                         *)
(***************************************************************************)
\* the detail fetches of request r that have succeeded or failed
Settled(r) == processedCount[r] + failedItems[r]

\* C14: within a request the detail fetches are issued one at a time, in
\* listing order, only after the listing call has returned, and for at most
\* the first 10 summaries: the fetch of item k+1 starts only when the fetches
\* of items 1..k have all succeeded or failed, and no item beyond the tenth is
\* fetched whatever the length of the listing.
DetailFetchesAreSequential ==
    \A r \in Reqs :
        /\ detailCalls[r] > 0
            => /\ listResult[r] = "ok" /\ recentEmails[r].present
               /\ detailCalls[r] <= Min(recentEmails[r].count, DetailLimit)
        /\ call[r].site = "detail"
            => /\ pc[r] \in {"refreshAccessToken", "persist", "retry", "returned"}
               /\ detailCalls[r] = idx[r] + 1
               /\ Settled(r) = idx[r]
        /\ call[r].site # "detail"
            => /\ detailCalls[r] = idx[r]
               /\ Settled(r) = idx[r]
        /\ pc[r] = "getMessage" => idx[r] < Min(recentEmails[r].count, DetailLimit)
        /\ idx[r] <= DetailLimit

\* a listing of more than ten summaries: ten fetched, the rest left alone
ElevenListedTenFetchedWitness ==
    \E r \in Reqs :
        /\ Done(r) /\ Answer(r).kind = "report"
        /\ recentEmails[r].count > DetailLimit
        /\ detailCalls[r] = DetailLimit
        /\ failedItems[r] > 0 /\ processedCount[r] > 0

(***************************************************************************)
(* The counts of the report                                                *)
(***************************************************************************)
\* C15: in every success report totalEmails is the number of summaries the
\* listing returned (not the number iterated), processedEmails is at most
\* min(totalEmails, 10), and the detectedNewsletters count is the length of
\* the returned match list and at most processedEmails. The answer to an
\* empty listing carries zero counts, an empty list and no processedEmails.
ReportCountsAreConsistent ==
    \A r \in Reqs :
        (Done(r) /\ Answer(r).success)
        => /\ Answer(r).kind \in {"report", "empty"}
           /\ Answer(r).detectedCount = Len(Answer(r).detectedNewsletters)
           /\ Answer(r).kind = "report"
               => /\ Answer(r).totalEmails = recentEmails[r].count
                  /\ Answer(r).processedEmails >= 0
                  /\ Answer(r).processedEmails <= Min(Answer(r).totalEmails, DetailLimit)
                  /\ Answer(r).detectedCount <= Answer(r).processedEmails
           /\ Answer(r).kind = "empty"
               => /\ Answer(r).totalEmails = 0
                  /\ Answer(r).detectedCount = 0

\* eleven listed, ten iterated, one of them failed, some matched and some not
TotalExceedsProcessedWitness ==
    \E r \in Reqs :
        /\ Done(r) /\ Answer(r).success /\ Answer(r).kind = "report"
        /\ Answer(r).totalEmails = DetailLimit + 1
        /\ idx[r] = DetailLimit
        /\ Answer(r).processedEmails = DetailLimit - 1
        /\ Answer(r).detectedCount >= 1
        /\ Answer(r).detectedCount < Answer(r).processedEmails

(***************************************************************************)
(* The credentials a client sends                                          *)
(***************************************************************************)
\* C16: every provider request of a client carries the client's current
\* access token as bearer: the first request of a call carries the token the
\* client held when the call began, which is the token of the latest
\* successful exchange once there was one (never again the initial token), the
\* retried request carries the token just issued, and the refresh token sent
\* in an exchange is the one the client was created with.
BearerIsCurrentToken ==
    \A r \in Reqs :
        /\ lastIssued[r] # NoToken => currentAccessToken[r] = lastIssued[r]
        /\ lastIssued[r] = NoToken => currentAccessToken[r] = accessToken[r]
        /\ call[r].sent >= 1 => call[r].bearer1 = call[r].before
        /\ (call[r].sent >= 1 /\ call[r].exchange # "ok")
            => call[r].bearer1 = currentAccessToken[r]
        /\ call[r].sent = 2
            => /\ call[r].bearer2 = currentAccessToken[r]
               /\ call[r].bearer2 = call[r].issued
        /\ call[r].exchanges > 0
            => /\ call[r].usedRefresh = refreshToken[r]
               /\ refreshToken[r] = RefreshToken
        /\ refreshToken[r] \in {"none", store.refresh_token}

\* the listing call refreshed the token; a later getMessage call sent the
\* refreshed token, not the initial one, on its first attempt
LaterCallUsesRefreshedWitness ==
    \E r \in Reqs :
        /\ Returned(r) /\ call[r].site = "detail"
        /\ call[r].sent = 1 /\ call[r].exchanges = 0
        /\ lastIssued[r] # NoToken /\ lastIssued[r] # accessToken[r]
        /\ call[r].bearer1 = lastIssued[r]

(***************************************************************************)
(* The writes of the credential store                                      *)
(***************************************************************************)
\* the store after every update a request has issued
WritesFollowExchanges ==
    \A r \in Reqs :
        /\ storeWrites[r] = exchangesOk[r] - (IF pc[r] = "persist" THEN 1 ELSE 0)
        /\ call[r].writes = (IF call[r].exchange = "ok" /\ pc[r] # "persist" THEN 1 ELSE 0)
        /\ call[r].sent = 2 => call[r].writes = 1
        /\ (exchangesOk[r] > 0 /\ pc[r] # "persist")
            => store.access_token = currentAccessToken[r]
        /\ store.refresh_token = RefreshToken

\* the steps that change the store or count as a write
OnlyPersistWrites ==
    \A r \in Reqs :
        (storeWrites'[r] # storeWrites[r] \/ store' # store)
        => /\ \E q \in Reqs :
                /\ pc[q] = "persist" /\ pc'[q] = "retry"
                /\ call[q].exchange = "ok" /\ call[q].sent = 1
                /\ storeWrites'[q] = storeWrites[q] + 1
                /\ store'.access_token = currentAccessToken[q]
           /\ store'.refresh_token = store.refresh_token
           /\ store'.present = store.present

\* C17: the credential store is written only as part of a successful token
\* exchange and before the retried request is sent: the writes of a request
\* are as many as its successful exchanges, each sets the stored access token
\* to the client's in-memory token and leaves the stored refresh token alone,
\* and the written token stays when the retried call fails.
StoreWrittenOncePerExchange == []WritesFollowExchanges /\ [][OnlyPersistWrites]_vars

\* the retried call failed and the store keeps the token that was issued
WriteOutlivesFailedRetryWitness ==
    \E r \in Reqs :
        /\ Done(r) /\ Answer(r).kind = "error" /\ listResult[r] = "ApiFailure"
        /\ exchangesOk[r] = 1 /\ storeWrites[r] = 1 /\ providerReqs[r] = 2
        /\ store.access_token = lastIssued[r]
        /\ store.access_token # accessToken[r]

(***************************************************************************)
(* The listing without messages                                            *)
(***************************************************************************)
\* C18: when the listing call succeeds but returns no messages (no messages
\* field, or an empty list of them), the request is answered with 200 and
\* success:true with zero counts, and neither a detail fetch nor a read of
\* the curated pattern list is made.
EmptyListingEndsEarly ==
    \A r \in Reqs :
        (Done(r) /\ listResult[r] = "ok" /\ recentEmails[r].count = 0)
        => /\ Answer(r).status = 200
           /\ Answer(r).success
           /\ Answer(r).totalEmails = 0
           /\ Answer(r).detectedCount = 0
           /\ detailCalls[r] = 0
           /\ curatedReads[r] = 0

====
